---- MODULE Spec2Model ----
(***************************************************************************)
(* Model of src/database.py: the SQLite store of the links                 *)
(*   Telegram ID       -> Bitrix24 user ID  (table telegram_bitrix_mapping) *)
(*   Telegram username -> Bitrix24 user ID  (table username_bitrix_mapping) *)
(*                                                                         *)
(* One action per public function.  A call is one step: it opens a        *)
(* connection with get_db_connection, runs its statements, commits or     *)
(* rolls back, closes, and returns.  A storage fault is an input of the   *)
(* call (the step at which sqlite3 raises).                                *)
(*                                                                         *)
(* sqlite3 semantics the model relies on (default isolation_level):        *)
(*  - a transaction is opened implicitly before INSERT/REPLACE/DELETE only; *)
(*    SELECT and CREATE run outside a transaction, so the conn.commit() of  *)
(*    a read or of init_database finds no open transaction and executes    *)
(*    nothing (it cannot fault), and every CREATE is durable as soon as it *)
(*    has run;                                                             *)
(*  - telegram_id INTEGER PRIMARY KEY is the rowid: the table is kept in   *)
(*    telegram_id order and idx_bitrix_user_id in (bitrix_user_id,         *)
(*    telegram_id) order;                                                  *)
(*  - INSERT OR REPLACE deletes the row with the conflicting key and       *)
(*    inserts a new one, columns not listed taking their DEFAULT.          *)
(* Strings are sequences of one-character strings.                         *)
(***************************************************************************)
EXTENDS Integers, Sequences, FiniteSets, TLC

VARIABLES
    schema,                   \* the tables and indexes that exist in the database file
    telegram_bitrix_mapping,  \* rows of the table, in rowid (= telegram_id) order
    username_bitrix_mapping,  \* rows of the table, in rowid (= insertion) order
    now,                      \* the value CURRENT_TIMESTAMP yields (seconds)
    op,                       \* the most recent call: function, arguments, fault met
    ret,                      \* what that call returned (or that it raised)
    trace                     \* what that call did with its connection

vars == <<schema, telegram_bitrix_mapping, username_bitrix_mapping, now, op, ret, trace>>

---------------------------------------------------------------------------
(* Bounds of the model and the inputs the calls are drawn from.            *)

MaxTime == 1      \* the clock runs over 0..MaxTime
MaxSigils == 1    \* a username argument carries 0..MaxSigils leading "@"

TelegramIds == {42, 100}   \* Telegram IDs the calls are made with
BitrixIds == {7, 9}        \* Bitrix24 user IDs the calls are made with

\* Usernames without a leading "@" (with an inner "@", which lstrip keeps).
Names == {<<"a", "@">>}

Sigils(k) == [i \in 1..k |-> "@"]

Usernames == {Sigils(k) \o n : k \in 0..MaxSigils, n \in Names}

---------------------------------------------------------------------------
(* Return values.  One record shape for all of them, so that any two can   *)
(* be compared.                                                            *)

RetNone == [kind |-> "None", b |-> FALSE, n |-> 0, m |-> << >>]
RetBool(x) == [kind |-> "bool", b |-> x, n |-> 0, m |-> << >>]
RetInt(x) == [kind |-> "int", b |-> FALSE, n |-> x, m |-> << >>]
RetDict(f) == [kind |-> "dict", b |-> FALSE, n |-> 0, m |-> f]
RetRaise == [kind |-> "raise", b |-> FALSE, n |-> 0, m |-> << >>]

Call(name, id, crm, username, fault) ==
    [name |-> name, telegram_id |-> id, bitrix_user_id |-> crm,
     telegram_username |-> username, fault |-> fault]

---------------------------------------------------------------------------
(* The database schema.                                                    *)

DDL == <<"telegram_bitrix_mapping", "username_bitrix_mapping", "idx_bitrix_user_id">>

\* The steps at which a call can meet a storage fault.
InitFaults == {"none", "connect", "execute_1", "execute_2", "execute_3"}
WriteFaults == {"none", "connect", "execute", "commit"}
ReadFaults == {"none", "connect", "execute", "fetch"}

---------------------------------------------------------------------------
(* get_db_connection: what one "with get_db_connection() as conn" block    *)
(* does with its connection, given the fault the call meets, whether the   *)
(* body raises, and whether the body opened a transaction.                 *)
(*   raised    - an exception leaves the with block                        *)
(*   committed - the body's writes are durable                             *)

\* Mutant: the connection is closed on the normal path only.
get_db_connection_leak(fault, bodyRaises, inTransaction) ==
    IF fault = "connect"
    THEN [events |-> <<"connect_failed">>, raised |-> TRUE, committed |-> FALSE]
    ELSE IF bodyRaises
    THEN [events |-> <<"connect", "body_raised", "rollback">>,
          raised |-> TRUE, committed |-> FALSE]
    ELSE IF fault = "commit" /\ inTransaction
    THEN [events |-> <<"connect", "body_done", "commit_failed", "rollback">>,
          raised |-> TRUE, committed |-> FALSE]
    ELSE [events |-> <<"connect", "body_done", "commit", "close">>,
          raised |-> FALSE, committed |-> TRUE]

get_db_connection(fault, bodyRaises, inTransaction) ==
    IF fault = "connect"
    THEN \* line 20 raises before the try: there is no connection to close
         [events |-> <<"connect_failed">>, raised |-> TRUE, committed |-> FALSE]
    ELSE IF bodyRaises
    THEN [events |-> <<"connect", "body_raised", "rollback", "close">>,
          raised |-> TRUE, committed |-> FALSE]
    ELSE IF fault = "commit" /\ inTransaction
    THEN [events |-> <<"connect", "body_done", "commit_failed", "rollback", "close">>,
          raised |-> TRUE, committed |-> FALSE]
    ELSE [events |-> <<"connect", "body_done", "commit", "close">>,
          raised |-> FALSE, committed |-> TRUE]

\* Mutant: the except clause re-raises (as init_database's does).
try_except_reraise(session, value, failure) ==
    IF session.raised THEN RetRaise ELSE value

\* try: ... return value / except Exception: log; return failure
try_except(session, value, failure) ==
    IF session.raised THEN failure ELSE value

---------------------------------------------------------------------------
(* Strings and rows.                                                       *)

\* Mutant: the username is used as given.
lstrip_nothing(s, ch) == s

\* str.lstrip(chars) for a one-character chars: drops every leading ch.
RECURSIVE lstrip(_, _)
lstrip(s, ch) ==
    IF s # << >> /\ Head(s) = ch THEN lstrip(Tail(s), ch) ELSE s

Row(id, crm, t) ==
    [telegram_id |-> id, bitrix_user_id |-> crm, created_at |-> t, updated_at |-> t]

UsernameRow(username, crm, t) ==
    [telegram_username |-> username, bitrix_user_id |-> crm,
     created_at |-> t, updated_at |-> t]

\* Mutant: the last row of the result is taken.
fetchone_last(rows) ==
    IF rows = << >> THEN << >> ELSE <<rows[Len(rows)]>>

\* cursor.fetchone(): the first row of the result, or None
fetchone(rows) ==
    IF rows = << >> THEN << >> ELSE <<Head(rows)>>

\* SELECT ... FROM telegram_bitrix_mapping WHERE telegram_id = ?
SelectByTelegramId(rows, id) ==
    SelectSeq(rows, LAMBDA r : r.telegram_id = id)

\* SELECT ... FROM telegram_bitrix_mapping WHERE bitrix_user_id = ?
\* (rows of one bitrix_user_id come in telegram_id order)
SelectByBitrixUserId(rows, crm) ==
    SelectSeq(rows, LAMBDA r : r.bitrix_user_id = crm)

\* SELECT ... FROM username_bitrix_mapping WHERE telegram_username = ?
SelectByUsername(rows, username) ==
    SelectSeq(rows, LAMBDA r : r.telegram_username = username)

\* Mutant: INSERT OR IGNORE, which keeps the row a key already has.
InsertOrIgnoreTelegram(rows, id, crm, t) ==
    IF \E i \in DOMAIN rows : rows[i].telegram_id = id
    THEN rows
    ELSE SelectSeq(rows, LAMBDA r : r.telegram_id < id)
            \o <<Row(id, crm, t)>>
            \o SelectSeq(rows, LAMBDA r : r.telegram_id > id)

\* INSERT OR REPLACE INTO telegram_bitrix_mapping (telegram_id, bitrix_user_id,
\* updated_at) VALUES (?, ?, CURRENT_TIMESTAMP); created_at takes its DEFAULT.
InsertOrReplaceTelegram(rows, id, crm, t) ==
    LET kept == SelectSeq(rows, LAMBDA r : r.telegram_id # id)
    IN  SelectSeq(kept, LAMBDA r : r.telegram_id < id)
            \o <<Row(id, crm, t)>>
            \o SelectSeq(kept, LAMBDA r : r.telegram_id > id)

\* INSERT OR REPLACE INTO username_bitrix_mapping (telegram_username,
\* bitrix_user_id, updated_at) VALUES (?, ?, CURRENT_TIMESTAMP)
InsertOrReplaceUsername(rows, username, crm, t) ==
    Append(SelectSeq(rows, LAMBDA r : r.telegram_username # username),
           UsernameRow(username, crm, t))

\* Mutant: DELETE without its WHERE clause.
DeleteEveryRow(rows, id) == << >>

\* DELETE FROM telegram_bitrix_mapping WHERE telegram_id = ?
DeleteByTelegramId(rows, id) ==
    SelectSeq(rows, LAMBDA r : r.telegram_id # id)

\* Mutant: the dict is keyed by the wrong column, so rows of one Bitrix24
\* user collapse into one entry.
RECURSIVE BuildMappingsByCrm(_, _)
BuildMappingsByCrm(rows, mappings) ==
    IF rows = << >>
    THEN mappings
    ELSE LET row == Head(rows)
         IN  BuildMappingsByCrm(Tail(rows),
                 [k \in DOMAIN mappings \cup {row.bitrix_user_id} |->
                     IF k = row.bitrix_user_id THEN row.telegram_id ELSE mappings[k]])

\* for row in rows: mappings[int(row['telegram_id'])] = int(row['bitrix_user_id'])
RECURSIVE BuildMappings(_, _)
BuildMappings(rows, mappings) ==
    IF rows = << >>
    THEN mappings
    ELSE LET row == Head(rows)
         IN  BuildMappings(Tail(rows),
                 [k \in DOMAIN mappings \cup {row.telegram_id} |->
                     IF k = row.telegram_id THEN row.bitrix_user_id ELSE mappings[k]])

---------------------------------------------------------------------------
(* The state after import: no database file yet, so no tables.             *)

Init ==
    /\ schema = {}
    /\ telegram_bitrix_mapping = << >>
    /\ username_bitrix_mapping = << >>
    /\ now = 0
    /\ op = Call("import", 0, 0, << >>, "none")
    /\ ret = RetNone
    /\ trace = << >>

\* The clock advances between calls.
Tick ==
    /\ now < MaxTime
    /\ now' = now + 1
    /\ UNCHANGED <<schema, telegram_bitrix_mapping, username_bitrix_mapping, op, ret, trace>>

\* The objects init_database has created when it meets `fault`.
Created(fault) ==
    CASE fault = "connect" -> {}
      [] fault = "execute_1" -> {}
      [] fault = "execute_2" -> {DDL[1]}
      [] fault = "execute_3" -> {DDL[1], DDL[2]}
      [] OTHER -> {DDL[1], DDL[2], DDL[3]}

\* Mutant: CREATE TABLE without IF NOT EXISTS after a DROP: the rows are lost.
init_database_recreate(fault) ==
    LET session == get_db_connection(fault, fault \in {"execute_1", "execute_2", "execute_3"}, FALSE)
    IN  /\ schema' = schema \cup Created(fault)
        /\ telegram_bitrix_mapping' = IF DDL[1] \in Created(fault) THEN << >> ELSE telegram_bitrix_mapping
        /\ username_bitrix_mapping' = IF DDL[2] \in Created(fault) THEN << >> ELSE username_bitrix_mapping
        /\ op' = Call("init_database", 0, 0, << >>, fault)
        /\ ret' = IF session.raised THEN RetRaise ELSE RetNone
        /\ trace' = session.events
        /\ UNCHANGED now

init_database(fault) ==
    LET session == get_db_connection(fault, fault \in {"execute_1", "execute_2", "execute_3"}, FALSE)
    IN  /\ schema' = schema \cup Created(fault)
        /\ op' = Call("init_database", 0, 0, << >>, fault)
        /\ ret' = IF session.raised THEN RetRaise ELSE RetNone
        /\ trace' = session.events
        /\ UNCHANGED <<telegram_bitrix_mapping, username_bitrix_mapping, now>>

save_telegram_mapping(telegram_id, bitrix_user_id, fault) ==
    LET bodyRaises == fault = "execute" \/ "telegram_bitrix_mapping" \notin schema
        session == get_db_connection(fault, bodyRaises, TRUE)
    IN  /\ telegram_bitrix_mapping' =
               IF session.committed
               THEN InsertOrReplaceTelegram(telegram_bitrix_mapping, telegram_id, bitrix_user_id, now)
               ELSE telegram_bitrix_mapping
        /\ op' = Call("save_telegram_mapping", telegram_id, bitrix_user_id, << >>, fault)
        /\ ret' = try_except(session, RetBool(TRUE), RetBool(FALSE))
        /\ trace' = session.events
        /\ UNCHANGED <<schema, username_bitrix_mapping, now>>

get_bitrix_user_id(telegram_id, fault) ==
    LET bodyRaises == fault \in {"execute", "fetch"} \/ "telegram_bitrix_mapping" \notin schema
        session == get_db_connection(fault, bodyRaises, FALSE)
        row == fetchone(SelectByTelegramId(telegram_bitrix_mapping, telegram_id))
    IN  /\ op' = Call("get_bitrix_user_id", telegram_id, 0, << >>, fault)
        /\ ret' = try_except(session,
                      IF row # << >> THEN RetInt(row[1].bitrix_user_id) ELSE RetNone,
                      RetNone)
        /\ trace' = session.events
        /\ UNCHANGED <<schema, telegram_bitrix_mapping, username_bitrix_mapping, now>>

get_telegram_id(bitrix_user_id, fault) ==
    LET bodyRaises == fault \in {"execute", "fetch"} \/ "telegram_bitrix_mapping" \notin schema
        session == get_db_connection(fault, bodyRaises, FALSE)
        row == fetchone(SelectByBitrixUserId(telegram_bitrix_mapping, bitrix_user_id))
    IN  /\ op' = Call("get_telegram_id", 0, bitrix_user_id, << >>, fault)
        /\ ret' = try_except(session,
                      IF row # << >> THEN RetInt(row[1].telegram_id) ELSE RetNone,
                      RetNone)
        /\ trace' = session.events
        /\ UNCHANGED <<schema, telegram_bitrix_mapping, username_bitrix_mapping, now>>

load_all_telegram_mappings(fault) ==
    LET bodyRaises == fault \in {"execute", "fetch"} \/ "telegram_bitrix_mapping" \notin schema
        session == get_db_connection(fault, bodyRaises, FALSE)
    IN  /\ op' = Call("load_all_telegram_mappings", 0, 0, << >>, fault)
        /\ ret' = try_except(session,
                      RetDict(BuildMappings(telegram_bitrix_mapping, << >>)),
                      RetDict(<< >>))
        /\ trace' = session.events
        /\ UNCHANGED <<schema, telegram_bitrix_mapping, username_bitrix_mapping, now>>

save_username_mapping(telegram_username, bitrix_user_id, fault) ==
    LET username == lstrip(telegram_username, "@")
        bodyRaises == fault = "execute" \/ "username_bitrix_mapping" \notin schema
        session == get_db_connection(fault, bodyRaises, TRUE)
    IN  /\ username_bitrix_mapping' =
               IF session.committed
               THEN InsertOrReplaceUsername(username_bitrix_mapping, username, bitrix_user_id, now)
               ELSE username_bitrix_mapping
        /\ op' = Call("save_username_mapping", 0, bitrix_user_id, telegram_username, fault)
        /\ ret' = try_except(session, RetBool(TRUE), RetBool(FALSE))
        /\ trace' = session.events
        /\ UNCHANGED <<schema, telegram_bitrix_mapping, now>>

get_bitrix_user_id_by_username(telegram_username, fault) ==
    LET username == lstrip(telegram_username, "@")
        bodyRaises == fault \in {"execute", "fetch"} \/ "username_bitrix_mapping" \notin schema
        session == get_db_connection(fault, bodyRaises, FALSE)
        row == fetchone(SelectByUsername(username_bitrix_mapping, username))
    IN  /\ op' = Call("get_bitrix_user_id_by_username", 0, 0, telegram_username, fault)
        /\ ret' = try_except(session,
                      IF row # << >> THEN RetInt(row[1].bitrix_user_id) ELSE RetNone,
                      RetNone)
        /\ trace' = session.events
        /\ UNCHANGED <<schema, telegram_bitrix_mapping, username_bitrix_mapping, now>>

\* Mutant: the delete also clears the username table.
delete_telegram_mapping_cascade(telegram_id, fault) ==
    LET bodyRaises == fault = "execute" \/ "telegram_bitrix_mapping" \notin schema
        session == get_db_connection(fault, bodyRaises, TRUE)
        rowcount == Len(SelectByTelegramId(telegram_bitrix_mapping, telegram_id))
    IN  /\ telegram_bitrix_mapping' =
               IF session.committed
               THEN DeleteByTelegramId(telegram_bitrix_mapping, telegram_id)
               ELSE telegram_bitrix_mapping
        /\ username_bitrix_mapping' =
               IF session.committed THEN << >> ELSE username_bitrix_mapping
        /\ op' = Call("delete_telegram_mapping", telegram_id, 0, << >>, fault)
        /\ ret' = try_except(session, RetBool(rowcount > 0), RetBool(FALSE))
        /\ trace' = session.events
        /\ UNCHANGED <<schema, now>>

delete_telegram_mapping(telegram_id, fault) ==
    LET bodyRaises == fault = "execute" \/ "telegram_bitrix_mapping" \notin schema
        session == get_db_connection(fault, bodyRaises, TRUE)
        rowcount == Len(SelectByTelegramId(telegram_bitrix_mapping, telegram_id))
    IN  /\ telegram_bitrix_mapping' =
               IF session.committed
               THEN DeleteByTelegramId(telegram_bitrix_mapping, telegram_id)
               ELSE telegram_bitrix_mapping
        /\ op' = Call("delete_telegram_mapping", telegram_id, 0, << >>, fault)
        /\ ret' = try_except(session, RetBool(rowcount > 0), RetBool(FALSE))
        /\ trace' = session.events
        /\ UNCHANGED <<schema, username_bitrix_mapping, now>>

Next ==
    \/ Tick
    \/ \E fault \in InitFaults : init_database(fault)
    \/ \E id \in TelegramIds, crm \in BitrixIds, fault \in WriteFaults :
           save_telegram_mapping(id, crm, fault)
    \/ \E id \in TelegramIds, fault \in ReadFaults : get_bitrix_user_id(id, fault)
    \/ \E crm \in BitrixIds, fault \in ReadFaults : get_telegram_id(crm, fault)
    \/ \E fault \in ReadFaults : load_all_telegram_mappings(fault)
    \/ \E username \in Usernames, crm \in BitrixIds, fault \in WriteFaults :
           save_username_mapping(username, crm, fault)
    \/ \E username \in Usernames, fault \in ReadFaults :
           get_bitrix_user_id_by_username(username, fault)
    \/ \E id \in TelegramIds, fault \in WriteFaults : delete_telegram_mapping(id, fault)

Spec == Init /\ [][Next]_vars

---------------------------------------------------------------------------
(* Vocabulary of the properties.                                           *)

RowsOf(table) == {table[i] : i \in DOMAIN table}
TelegramRows == RowsOf(telegram_bitrix_mapping)
UsernameRows == RowsOf(username_bitrix_mapping)

\* The positions in a table of the rows stored for one key.
TelegramAt(table, id) == {i \in DOMAIN table : table[i].telegram_id = id}
UsernameAt(table, username) == {i \in DOMAIN table : table[i].telegram_username = username}

\* The Bitrix24 user IDs a table stores for one Telegram ID.
CrmIn(table, id) == {r.bitrix_user_id : r \in {x \in RowsOf(table) : x.telegram_id = id}}
CrmOf(id) == CrmIn(telegram_bitrix_mapping, id)

\* The Telegram IDs stored for one Bitrix24 user ID.
IdsOf(crm) == {r.telegram_id : r \in {x \in TelegramRows : x.bitrix_user_id = crm}}

Reads == {"get_bitrix_user_id", "get_telegram_id", "load_all_telegram_mappings",
          "get_bitrix_user_id_by_username"}
Writes == {"save_telegram_mapping", "save_username_mapping", "delete_telegram_mapping"}

\* This step is a call of `name` (Tick is the one step that moves the clock).
IsCall(name) == op'.name = name /\ now' = now

Succeeded == ret = RetBool(TRUE)

---------------------------------------------------------------------------
\* C1: the identity relation holds at most one row per Telegram ID; a
\* successful save_telegram_mapping(id, crm) leaves the row of id carrying crm;
\* nothing but a successful save or delete of id changes what is stored for
\* id; and get_bitrix_user_id(id), meeting no fault, returns what is stored
\* for id.  Hence a successful save followed, with no write to id in between,
\* by a get returns the saved value (save(42,7), save(42,9): one row, 9).
C1_SaveThenGet ==
    [][ /\ \A id \in TelegramIds : Cardinality(TelegramAt(telegram_bitrix_mapping', id)) <= 1
        /\ IsCall("save_telegram_mapping") /\ Succeeded'
               => CrmIn(telegram_bitrix_mapping', op'.telegram_id) = {op'.bitrix_user_id}
        /\ \A id \in TelegramIds :
               ~ (/\ op'.name \in {"save_telegram_mapping", "delete_telegram_mapping"}
                  /\ now' = now
                  /\ op'.telegram_id = id
                  /\ Succeeded')
               => CrmIn(telegram_bitrix_mapping', id) = CrmOf(id)
        /\ IsCall("get_bitrix_user_id") /\ op'.fault = "none"
               => /\ \A crm \in BitrixIds :
                        ret' = RetInt(crm) <=> crm \in CrmOf(op'.telegram_id)
                  /\ ret' = RetNone <=> CrmOf(op'.telegram_id) = {}
                  /\ ret'.kind \in {"int", "None"}
      ]_vars

\* C1 witness: the lookup of 42 has just returned 9 from the single row of
\* 42, a row written by a save made after the clock had advanced.
C1_Witness ==
    /\ op = Call("get_bitrix_user_id", 42, 0, << >>, "none")
    /\ ret = RetInt(9)
    /\ Cardinality(TelegramAt(telegram_bitrix_mapping, 42)) = 1
    /\ \E r \in TelegramRows : r.telegram_id = 42 /\ r.created_at > 0

---------------------------------------------------------------------------
\* C2 as claimed: after a successful save_telegram_mapping(id, crm), from any
\* store state, get_telegram_id(crm) returns id.
C2_Original ==
    [][ /\ op.name = "save_telegram_mapping" /\ Succeeded
        /\ IsCall("get_telegram_id") /\ op'.fault = "none"
        /\ op'.bitrix_user_id = op.bitrix_user_id
        => ret' = RetInt(op.telegram_id) ]_vars

\* C2 amended: after a successful save_telegram_mapping(id, crm),
\* get_telegram_id(crm) returns the smallest Telegram ID stored with crm:
\* id itself when no smaller Telegram ID maps to crm (in particular when no
\* other one does).
C2_ReverseLookup ==
    [][ /\ op.name = "save_telegram_mapping" /\ Succeeded
        /\ IsCall("get_telegram_id") /\ op'.fault = "none"
        /\ op'.bitrix_user_id = op.bitrix_user_id
        => /\ ret'.kind = "int"
           /\ ret'.n \in IdsOf(op.bitrix_user_id)
           /\ \A other \in IdsOf(op.bitrix_user_id) : ret'.n <= other
           /\ op.telegram_id \in IdsOf(op.bitrix_user_id)
           /\ (\A other \in IdsOf(op.bitrix_user_id) : op.telegram_id <= other)
                  => ret' = RetInt(op.telegram_id) ]_vars

\* C2 witness: two Telegram IDs map to 7 and the reverse lookup of 7 has
\* returned the smaller one.
C2_Witness ==
    /\ op = Call("get_telegram_id", 0, 7, << >>, "none")
    /\ IdsOf(7) = {42, 100}
    /\ ret = RetInt(42)

---------------------------------------------------------------------------
\* C3: for every username h without a leading "@": after a successful
\* save_username_mapping of h or of "@" + h with crm, the lookups of h and of
\* "@" + h, meeting no fault, both return crm, and the handle relation holds
\* exactly one row for them, keyed h.
C3_HandleNormalization ==
    [][ \A h \in Names :
          /\ op.name = "save_username_mapping" /\ Succeeded
          /\ op.telegram_username \in {h, <<"@">> \o h}
          /\ IsCall("get_bitrix_user_id_by_username") /\ op'.fault = "none"
          /\ op'.telegram_username \in {h, <<"@">> \o h}
          => /\ ret' = RetInt(op.bitrix_user_id)
             /\ Cardinality(UsernameAt(username_bitrix_mapping', h)) = 1
             /\ UsernameAt(username_bitrix_mapping', <<"@">> \o h) = {} ]_vars

\* C3 witness: "@a@" was saved with 9 and the lookup of the bare "a@" has
\* returned 9.
C3_Witness ==
    /\ op = Call("get_bitrix_user_id_by_username", 0, 0, <<"a", "@">>, "none")
    /\ ret = RetInt(9)
    /\ \E r \in UsernameRows : r.telegram_username = <<"a", "@">> /\ r.bitrix_user_id = 9

---------------------------------------------------------------------------
\* C4: delete_telegram_mapping(id), meeting no fault: when a row for id
\* exists it returns True and removes exactly the rows of id; when none
\* exists it returns False and the identity relation is unchanged.  After a
\* successful delete of id, get_bitrix_user_id(id) returns None.
C4_Delete ==
    [][ /\ IsCall("delete_telegram_mapping") /\ op'.fault = "none"
           => IF CrmOf(op'.telegram_id) # {}
              THEN /\ ret' = RetBool(TRUE)
                   /\ TelegramRows' = {r \in TelegramRows : r.telegram_id # op'.telegram_id}
                   /\ username_bitrix_mapping' = username_bitrix_mapping
              ELSE /\ ret' = RetBool(FALSE)
                   /\ telegram_bitrix_mapping' = telegram_bitrix_mapping
                   /\ username_bitrix_mapping' = username_bitrix_mapping
        /\ /\ op.name = "delete_telegram_mapping" /\ Succeeded
           /\ IsCall("get_bitrix_user_id") /\ op'.telegram_id = op.telegram_id
           => ret' = RetNone ]_vars

\* C4 witness: 42 has just been deleted while the row of 100 stays.
C4_Witness ==
    /\ op = Call("delete_telegram_mapping", 42, 0, << >>, "none")
    /\ ret = RetBool(TRUE)
    /\ CrmOf(42) = {}
    /\ CrmOf(100) # {}

---------------------------------------------------------------------------
\* C5: load_all_telegram_mappings, meeting no fault, returns a dict whose
\* keys are exactly the Telegram IDs stored and whose value for each key is
\* the Bitrix24 user ID stored for it; on an empty store it returns the empty
\* dict.
C5_BulkLoad ==
    op.name = "load_all_telegram_mappings" /\ op.fault = "none"
        => /\ ret.kind = "dict"
           /\ DOMAIN ret.m = {r.telegram_id : r \in TelegramRows}
           /\ \A r \in TelegramRows : ret.m[r.telegram_id] = r.bitrix_user_id
           /\ Cardinality(DOMAIN ret.m) = Len(telegram_bitrix_mapping)
           /\ telegram_bitrix_mapping = << >> => ret = RetDict(<< >>)

\* C5 witness: two IDs are stored with different values and the load has
\* returned both.
C5_Witness ==
    /\ op.name = "load_all_telegram_mappings" /\ op.fault = "none"
    /\ CrmOf(42) = {9} /\ CrmOf(100) = {7}
    /\ DOMAIN ret.m = {42, 100}

---------------------------------------------------------------------------
\* The value an accessor returns when it fails.
FailureValue(name) ==
    CASE name \in Writes -> RetBool(FALSE)
      [] name = "load_all_telegram_mappings" -> RetDict(<< >>)
      [] OTHER -> RetNone

\* C6: no accessor other than init_database lets an exception reach the
\* caller; a call that meets a storage fault returns its failure value
\* (False for the writes, None for the point reads, {} for the bulk load).
C6_FailurePolicy ==
    op.name \in Reads \cup Writes
        => /\ ret # RetRaise
           /\ op.fault # "none" => ret = FailureValue(op.name)

\* C6 witness: the bulk load met a fault at fetch on a store that holds rows
\* and returned {}.
C6_Witness ==
    /\ op = Call("load_all_telegram_mappings", 0, 0, << >>, "fetch")
    /\ telegram_bitrix_mapping # << >>
    /\ ret = RetDict(<< >>)

---------------------------------------------------------------------------
\* C7: init_database never removes a table or index and leaves every row of
\* both relations unchanged; when it meets no fault both tables and the
\* index exist afterwards and it returns normally; it raises exactly when
\* it meets a fault (the connection or a CREATE statement failed).
C7_InitIdempotent ==
    [][ IsCall("init_database")
        => /\ telegram_bitrix_mapping' = telegram_bitrix_mapping
           /\ username_bitrix_mapping' = username_bitrix_mapping
           /\ schema \subseteq schema'
           /\ op'.fault = "none" => schema' = {DDL[1], DDL[2], DDL[3]} /\ ret' = RetNone
           /\ ret' = RetRaise <=> op'.fault # "none" ]_vars

\* C7 witness: init_database has run again on a store that holds rows in
\* both relations.
C7_Witness ==
    /\ op = Call("init_database", 0, 0, << >>, "none")
    /\ telegram_bitrix_mapping # << >>
    /\ username_bitrix_mapping # << >>
    /\ ret = RetNone

---------------------------------------------------------------------------
\* What a call did with its connection.
Did(events, e) == \E i \in DOMAIN events : events[i] = e
Count(events, e) == Cardinality({i \in DOMAIN events : events[i] = e})

\* A call's connection discipline: a connection that was opened is closed
\* once, as the last thing; commit is called exactly when the body completed
\* without exception; rollback is called exactly when the body or the commit
\* raised.
Discipline(events) ==
    /\ Count(events, "connect") + Count(events, "connect_failed") = 1
    /\ Did(events, "connect")
           => events[1] = "connect" /\ events[Len(events)] = "close"
                /\ Count(events, "close") = 1
    /\ ~ Did(events, "connect") => events = <<"connect_failed">>
    /\ (Did(events, "commit") \/ Did(events, "commit_failed")) <=> Did(events, "body_done")
    /\ Did(events, "rollback") <=> (Did(events, "body_raised") \/ Did(events, "commit_failed"))

\* This step is a call that failed because of a storage fault.
FailedOnFault == now' = now /\ op'.fault # "none" /\ op'.name # "import"

\* C8 as claimed: every call keeps the connection discipline, and a call that
\* fails because of a storage fault leaves the persisted store (which tables
\* exist and the rows they hold) exactly as it was.
C8_Original ==
    [][ /\ now' = now => Discipline(trace')
        /\ op'.fault # "none" => ~ Did(trace', "commit")
        /\ FailedOnFault
           => /\ schema' = schema
              /\ telegram_bitrix_mapping' = telegram_bitrix_mapping
              /\ username_bitrix_mapping' = username_bitrix_mapping ]_vars

\* C8 amended: every call keeps the connection discipline; a call that fails
\* because of a storage fault leaves the rows of both relations exactly as
\* they were, and leaves the schema as it was unless it is init_database,
\* which keeps the tables its CREATE statements made before the fault.
C8_ConnectionDiscipline ==
    [][ /\ now' = now => Discipline(trace')
        /\ op'.fault # "none" => ~ Did(trace', "commit")
        /\ FailedOnFault
           => /\ telegram_bitrix_mapping' = telegram_bitrix_mapping
              /\ username_bitrix_mapping' = username_bitrix_mapping
              /\ op'.name # "init_database" => schema' = schema
              /\ op'.name = "init_database" => schema \subseteq schema' ]_vars

\* C8 witness: a save met a fault at commit, rolled back and closed, and the
\* row it would have replaced is still there.
C8_Witness ==
    /\ op = Call("save_telegram_mapping", 42, 9, << >>, "commit")
    /\ trace = <<"connect", "body_done", "commit_failed", "rollback", "close">>
    /\ ret = RetBool(FALSE)
    /\ CrmOf(42) = {7}

---------------------------------------------------------------------------
\* C9 as claimed: a successful save for a key that already has a row keeps
\* the row's created_at, sets the new bitrix_user_id and refreshes
\* updated_at.
C9_UpdateInPlace ==
    [][ /\ IsCall("save_telegram_mapping") /\ Succeeded'
           => \A old \in TelegramRows : old.telegram_id = op'.telegram_id
                 => \E new \in TelegramRows' :
                       /\ new.telegram_id = old.telegram_id
                       /\ new.bitrix_user_id = op'.bitrix_user_id
                       /\ new.updated_at = now
                       /\ new.created_at = old.created_at
        /\ IsCall("save_username_mapping") /\ Succeeded'
           => \A old \in UsernameRows : old.telegram_username = lstrip(op'.telegram_username, "@")
                 => \E new \in UsernameRows' :
                       /\ new.telegram_username = old.telegram_username
                       /\ new.bitrix_user_id = op'.bitrix_user_id
                       /\ new.updated_at = now
                       /\ new.created_at = old.created_at ]_vars

---------------------------------------------------------------------------
\* C10: save_telegram_mapping and delete_telegram_mapping leave the handle
\* relation unchanged, save_username_mapping leaves the identity relation
\* unchanged, and the reads change neither; no call removes a handle's row,
\* so a lookup, meeting no fault, of a username whose row was once saved
\* never returns None.
C10_Independence ==
    [][ /\ op'.name \in {"save_telegram_mapping", "delete_telegram_mapping"} \cup Reads
           => username_bitrix_mapping' = username_bitrix_mapping
        /\ op'.name \in {"save_username_mapping"} \cup Reads
           => telegram_bitrix_mapping' = telegram_bitrix_mapping
        /\ \A h \in Names : UsernameAt(username_bitrix_mapping, h) # {}
                            => UsernameAt(username_bitrix_mapping', h) # {}
        /\ \A h \in Names :
              /\ UsernameAt(username_bitrix_mapping, h) # {}
              /\ IsCall("get_bitrix_user_id_by_username") /\ op'.fault = "none"
              /\ \E k \in 0..MaxSigils : op'.telegram_username = Sigils(k) \o h
              => ret' # RetNone /\ ret'.kind = "int" ]_vars

\* C10 witness: the username was saved, the Telegram ID saved next to it has
\* been deleted since, and the lookup of the username still returns 7.
C10_Witness ==
    /\ op = Call("get_bitrix_user_id_by_username", 0, 0, <<"@", "a", "@">>, "none")
    /\ ret = RetInt(7)
    /\ telegram_bitrix_mapping = << >>
    /\ \E r \in UsernameRows : r.created_at < now

====
